---- MODULE Spec2Model ----
(***************************************************************************)
(* Model of the UART example application (src/src/main.c): the bootstrap   *)
(* task main, the two echo tasks uart1_echo_task and uart2_echo_task, and  *)
(* the URC handler urc_callback.  Every system call of a task is one step  *)
(* of the model; the endpoints' answers (bytes, errors, time-outs) are     *)
(* chosen by the environment.                                              *)
(***************************************************************************)
EXTENDS Integers, Sequences, FiniteSets, TLC

(***************************************************************************)
(* Bounds of the exploration.                                              *)
(***************************************************************************)
\* read() calls the fixed-rate task may issue
MaxReads1 == 3
\* largest byte value delivered to the fixed-rate endpoint (bytes are 0..MaxByte)
MaxByte == 1
\* select() calls the idle-timeout task may issue
MaxCycles2 == 3
\* chunks of input that may arrive at the idle-timeout endpoint
MaxArrive2 == 2
\* calls on the two peripheral endpoints together, in the whole-system specification
SysCalls == 6

(***************************************************************************)
(* Program constants.                                                      *)
(***************************************************************************)
\* sizeof(rdbuf)
RDBUF_SIZE == 128
\* timeout.tv_sec
TIMEOUT_SEC == 5
\* timeout.tv_usec
TIMEOUT_USEC == 0
\* cfsetspeed(&t, B9600)
B9600 == 9600
\* strlen("\r\nUART2: No data for 5 sec\r\n")
NOTICE_LEN == 28

\* the two builds selected by #ifdef SOC_RDA8910
Socs == {"SOC_RDA8910", "OTHER"}

STDIO_PORT(s) == IF s = "SOC_RDA8910" THEN "/dev/ttyUSB0" ELSE "/dev/ttyS0"

PORT1(s) == IF s = "SOC_RDA8910" THEN "/dev/ttyS0" ELSE "/dev/ttyS1"

\* as PORT2, but with the path of PORT1
PORT2Same(s) == IF s = "SOC_RDA8910" THEN "/dev/ttyS0" ELSE "/dev/ttyS1"

PORT2(s) == IF s = "SOC_RDA8910" THEN "/dev/ttyS1" ELSE "/dev/ttyS2"

Paths == {"/dev/ttyUSB0", "/dev/ttyS0", "/dev/ttyS1", "/dev/ttyS2"}

\* values of errno after a failed call
Errnos == {"EIO", "ENODEV"}

Byte == 0..MaxByte

VARIABLES
    soc,        \* which build runs
    pcMain,     \* main: position
    initCalls,  \* number of logicrom_init calls made
    stdio,      \* console endpoint bound by logicrom_init ("" before)
    urcSink,    \* callback registered with the runtime ("" before)
    spawned,    \* os_task_create calls, in order
    logMain,    \* lines printed by main
    fdtab,      \* open descriptors: set of <<fd, path>>
    io,         \* per endpoint path: the calls made on it, in order
    pc1,        \* uart1_echo_task: position
    fd1,        \* uart1_echo_task: fd
    speed1,     \* speed set on the fixed-rate endpoint (0: default)
    ch,         \* uart1_echo_task: ch
    log1,       \* lines printed by uart1_echo_task
    pc2,        \* uart2_echo_task: position
    fd2,        \* uart2_echo_task: fd
    ret2,       \* uart2_echo_task: ret
    rdbuf,      \* uart2_echo_task: rdbuf, as the window of the input it holds
    timeout,    \* uart2_echo_task: timeout
    fdset,      \* uart2_echo_task: set
    arrived2,   \* bytes that have arrived at the idle-timeout endpoint
    taken2,     \* bytes read from the idle-timeout endpoint
    chunks2,    \* number of arrivals so far
    log2,       \* lines printed by uart2_echo_task
    urcEv,      \* the last URC delivered
    urcOut      \* debug() calls made by the last urc_callback invocation

mainVars == <<pcMain, initCalls, stdio, urcSink, spawned, logMain>>

u1Vars == <<pc1, fd1, speed1, ch, log1>>

u2Vars == <<pc2, fd2, ret2, rdbuf, timeout, fdset, log2>>

in2Vars == <<arrived2, taken2, chunks2>>

urcVars == <<urcEv, urcOut>>

vars == <<soc, mainVars, fdtab, io, u1Vars, u2Vars, in2Vars, urcVars>>

(***************************************************************************)
(* The descriptor table and the per-endpoint record of calls.              *)
(***************************************************************************)
UsedFds == {e[1] : e \in fdtab}

\* open() returns the lowest descriptor not in use
LowestFree == CHOOSE n \in 0..Cardinality(fdtab) :
                  /\ n \notin UsedFds
                  /\ \A m \in 0..(n - 1) : m \in UsedFds

\* calls on a value that names no open descriptor are kept apart
BadFd == "EBADF"

PathOf(fd) == IF \E p \in Paths : <<fd, p>> \in fdtab
              THEN CHOOSE p \in Paths : <<fd, p>> \in fdtab
              ELSE BadFd

Call(task, fd, op, ret, data) ==
    [task |-> task, fd |-> fd, op |-> op, ret |-> ret, data |-> data]

\* a call on an open descriptor is recorded at the endpoint the descriptor names
Record(task, fd, op, ret, data) ==
    io' = [io EXCEPT ![PathOf(fd)] = Append(@, Call(task, fd, op, ret, data))]

NoData == <<>>

Line(fmt, args) == [fmt |-> fmt, args |-> args]

(***************************************************************************)
(* main                                                                    *)
(***************************************************************************)
Init ==
    /\ soc \in Socs
    /\ pcMain = "init"
    /\ initCalls = 0
    /\ stdio = ""
    /\ urcSink = ""
    /\ spawned = <<>>
    /\ logMain = <<>>
    /\ fdtab = {}
    /\ io = [p \in Paths \cup {BadFd} |-> <<>>]
    /\ pc1 = "unborn"
    /\ fd1 = -1
    /\ speed1 = 0
    /\ ch = 0
    /\ log1 = <<>>
    /\ pc2 = "unborn"
    /\ fd2 = -1
    /\ ret2 = 0
    /\ rdbuf = [lo |-> 0, len |-> 0]
    /\ timeout = [tv_sec |-> 0, tv_usec |-> 0]
    /\ fdset = {}
    /\ arrived2 = 0
    /\ taken2 = 0
    /\ chunks2 = 0
    /\ log2 = <<>>
    /\ urcEv = [code |-> "", param |-> ""]
    /\ urcOut = <<>>

\* logicrom_init(STDIO_PORT, urc_callback); printf("System Ready\n");
MainInit ==
    /\ pcMain = "init"
    /\ initCalls' = initCalls + 1
    /\ stdio' = STDIO_PORT(soc)
    /\ urcSink' = "urc_callback"
    /\ logMain' = Append(logMain, Line("System Ready\n", <<>>))
    /\ pcMain' = "spawn1"
    /\ UNCHANGED <<soc, spawned, fdtab, io, u1Vars, u2Vars, in2Vars, urcVars>>

\* os_task_create(uart1_echo_task, NULL, FALSE);
MainSpawn1 ==
    /\ pcMain = "spawn1"
    /\ spawned' = Append(spawned, "uart1_echo_task")
    /\ pc1' = "open"
    /\ pcMain' = "spawn2"
    /\ UNCHANGED <<soc, initCalls, stdio, urcSink, logMain, fdtab, io,
                   fd1, speed1, ch, log1, u2Vars, in2Vars, urcVars>>

\* os_task_create(uart2_echo_task, NULL, FALSE); printf("System Initialization finished\n");
MainSpawn2 ==
    /\ pcMain = "spawn2"
    /\ spawned' = Append(spawned, "uart2_echo_task")
    /\ pc2' = "open"
    /\ logMain' = Append(logMain, Line("System Initialization finished\n", <<>>))
    /\ pcMain' = "idle"
    /\ UNCHANGED <<soc, initCalls, stdio, urcSink, fdtab, io,
                   u1Vars, fd2, ret2, rdbuf, timeout, fdset, log2, in2Vars, urcVars>>

\* as MainSleep, but returning from main once both tasks have ended
MainSleepReturns ==
    /\ pcMain = "idle"
    /\ pcMain' = IF pc1 = "done" /\ pc2 = "done" THEN "returned" ELSE "idle"
    /\ UNCHANGED <<soc, initCalls, stdio, urcSink, spawned, logMain, fdtab, io,
                   u1Vars, u2Vars, in2Vars, urcVars>>

\* while (1) { sleep(1); }
MainSleep ==
    /\ pcMain = "idle"
    /\ pcMain' = "idle"
    /\ UNCHANGED <<soc, initCalls, stdio, urcSink, spawned, logMain, fdtab, io,
                   u1Vars, u2Vars, in2Vars, urcVars>>

(***************************************************************************)
(* uart1_echo_task                                                         *)
(***************************************************************************)
\* as U1Open, but going on after a failed open
U1OpenNoReturn ==
    /\ pc1 = "open"
    /\ \/ /\ fd1' = LowestFree
          /\ fdtab' = fdtab \cup {<<LowestFree, PORT1(soc)>>}
          /\ io' = [io EXCEPT ![PORT1(soc)] =
                        Append(@, Call("uart1_echo_task", LowestFree, "open", LowestFree, NoData))]
          /\ pc1' = "setspeed"
          /\ log1' = log1
       \/ \E e \in Errnos :
          /\ fd1' = -1
          /\ fdtab' = fdtab
          /\ io' = [io EXCEPT ![PORT1(soc)] =
                        Append(@, Call("uart1_echo_task", -1, "open", -1, NoData))]
          /\ log1' = Append(log1, Line("UART1: Error opening %s, err %d\n", <<PORT1(soc), e>>))
          /\ pc1' = "setspeed"
    /\ UNCHANGED <<soc, mainVars, speed1, ch, u2Vars, in2Vars, urcVars>>

\* fd = open(PORT1, O_RDWR); if (fd < 0) { printf(...); return; }
U1Open ==
    /\ pc1 = "open"
    /\ \/ /\ fd1' = LowestFree
          /\ fdtab' = fdtab \cup {<<LowestFree, PORT1(soc)>>}
          /\ io' = [io EXCEPT ![PORT1(soc)] =
                        Append(@, Call("uart1_echo_task", LowestFree, "open", LowestFree, NoData))]
          /\ pc1' = "setspeed"
          /\ log1' = log1
       \/ \E e \in Errnos :
          /\ fd1' = -1
          /\ fdtab' = fdtab
          /\ io' = [io EXCEPT ![PORT1(soc)] =
                        Append(@, Call("uart1_echo_task", -1, "open", -1, NoData))]
          /\ log1' = Append(log1, Line("UART1: Error opening %s, err %d\n", <<PORT1(soc), e>>))
          /\ pc1' = "done"
    /\ UNCHANGED <<soc, mainVars, speed1, ch, u2Vars, in2Vars, urcVars>>

\* tcgetattr(fd, &t); cfsetspeed(&t, B9600); tcsetattr(fd, TCSANOW, &t); printf(...);
U1SetSpeed ==
    /\ pc1 = "setspeed"
    /\ speed1' = B9600
    /\ io' = [io EXCEPT ![PathOf(fd1)] =
                  @ \o <<Call("uart1_echo_task", fd1, "tcgetattr", 0, NoData),
                         Call("uart1_echo_task", fd1, "tcsetattr", 0, <<B9600>>)>>]
    /\ log1' = Append(log1, Line("UART1: %s open @ 9600\n", <<PORT1(soc)>>))
    /\ pc1' = "read"
    /\ UNCHANGED <<soc, mainVars, fdtab, fd1, ch, u2Vars, in2Vars, urcVars>>

Reads1 == Len(SelectSeq(io[PORT1(soc)], LAMBDA c : c.op = "read"))

\* as U1Read, but reading again after a failed read
U1ReadRetry ==
    /\ pc1 = "read"
    /\ Reads1 < MaxReads1
    /\ \/ \E b \in Byte :
          /\ ch' = b
          /\ Record("uart1_echo_task", fd1, "read", 1, <<b>>)
          /\ pc1' = "write"
          /\ log1' = log1
       \/ \E stale \in Byte :
          /\ ch' = stale
          /\ Record("uart1_echo_task", fd1, "read", 0, NoData)
          /\ pc1' = "write"
          /\ log1' = log1
       \/ \E e \in Errnos :
          /\ ch' = ch
          /\ Record("uart1_echo_task", fd1, "read", -1, NoData)
          /\ log1' = Append(log1, Line("UART1: fail to read from uart: %d\n", <<e>>))
          /\ pc1' = "read"
    /\ UNCHANGED <<soc, mainVars, fdtab, fd1, speed1, u2Vars, in2Vars, urcVars>>

\* ret = read(fd, &ch, 1); if (ret < 0) { printf(...); break; }
U1Read ==
    /\ pc1 = "read"
    /\ Reads1 < MaxReads1
    /\ \/ \E b \in Byte :
          /\ ch' = b
          /\ Record("uart1_echo_task", fd1, "read", 1, <<b>>)
          /\ pc1' = "write"
          /\ log1' = log1
       \/ \E stale \in Byte :
          \* read returned 0: ch was never assigned in this iteration
          /\ ch' = stale
          /\ Record("uart1_echo_task", fd1, "read", 0, NoData)
          /\ pc1' = "write"
          /\ log1' = log1
       \/ \E e \in Errnos :
          /\ ch' = ch
          /\ Record("uart1_echo_task", fd1, "read", -1, NoData)
          /\ log1' = Append(log1, Line("UART1: fail to read from uart: %d\n", <<e>>))
          /\ pc1' = "close"
    /\ UNCHANGED <<soc, mainVars, fdtab, fd1, speed1, u2Vars, in2Vars, urcVars>>

\* results of a write of n bytes: all written, fewer written, or failed
WriteRets(n) == {n, -1} \cup (IF n > 1 THEN {n - 1} ELSE {})

\* as U1Write, but echoing a byte that is not the one read
U1WriteOther ==
    /\ pc1 = "write"
    /\ \E r \in WriteRets(1) : Record("uart1_echo_task", fd1, "write", r, <<0>>)
    /\ pc1' = "read"
    /\ UNCHANGED <<soc, mainVars, fdtab, fd1, speed1, ch, log1, u2Vars, in2Vars, urcVars>>

\* as U1Write, but leaving the loop when the write fails
U1WriteBreaks ==
    /\ pc1 = "write"
    /\ \E r \in WriteRets(1) :
       /\ Record("uart1_echo_task", fd1, "write", r, <<ch>>)
       /\ pc1' = IF r < 0 THEN "close" ELSE "read"
    /\ UNCHANGED <<soc, mainVars, fdtab, fd1, speed1, ch, log1, u2Vars, in2Vars, urcVars>>

\* write(fd, &ch, 1);
U1Write ==
    /\ pc1 = "write"
    /\ \E r \in WriteRets(1) : Record("uart1_echo_task", fd1, "write", r, <<ch>>)
    /\ pc1' = "read"
    /\ UNCHANGED <<soc, mainVars, fdtab, fd1, speed1, ch, log1, u2Vars, in2Vars, urcVars>>

\* as U1Close, but going back to the loop after the close
U1CloseLoops ==
    /\ pc1 = "close"
    /\ Record("uart1_echo_task", fd1, "close", 0, NoData)
    /\ fdtab' = fdtab \ {<<fd1, PathOf(fd1)>>}
    /\ pc1' = "read"
    /\ UNCHANGED <<soc, mainVars, fd1, speed1, ch, log1, u2Vars, in2Vars, urcVars>>

\* close(fd);
U1Close ==
    /\ pc1 = "close"
    /\ Record("uart1_echo_task", fd1, "close", 0, NoData)
    /\ fdtab' = fdtab \ {<<fd1, PathOf(fd1)>>}
    /\ pc1' = "done"
    /\ UNCHANGED <<soc, mainVars, fd1, speed1, ch, log1, u2Vars, in2Vars, urcVars>>

(***************************************************************************)
(* uart2_echo_task                                                         *)
(***************************************************************************)
\* bytes that have arrived at the idle-timeout endpoint and are not read yet
Avail2 == arrived2 - taken2

\* sizes of the chunks that arrive: one byte, a full buffer, more than a buffer
ChunkSizes == {1, RDBUF_SIZE, RDBUF_SIZE + 1}

\* the environment delivers a chunk of input to the open idle-timeout endpoint
Arrive2 ==
    /\ \E f \in UsedFds : <<f, PORT2(soc)>> \in fdtab
    /\ chunks2 < MaxArrive2
    /\ \E n \in ChunkSizes : arrived2' = arrived2 + n
    /\ chunks2' = chunks2 + 1
    /\ UNCHANGED <<soc, mainVars, fdtab, io, u1Vars, u2Vars, taken2, urcVars>>

\* fd = open(PORT2, O_RDWR); if (fd < 0) { printf(...); return; } printf(...);
U2Open ==
    /\ pc2 = "open"
    /\ \/ /\ fd2' = LowestFree
          /\ fdtab' = fdtab \cup {<<LowestFree, PORT2(soc)>>}
          /\ io' = [io EXCEPT ![PORT2(soc)] =
                        Append(@, Call("uart2_echo_task", LowestFree, "open", LowestFree, NoData))]
          /\ log2' = Append(log2, Line("UART2: %s open @ 115200\n", <<PORT2(soc)>>))
          /\ pc2' = "select"
       \/ \E e \in Errnos :
          /\ fd2' = -1
          /\ fdtab' = fdtab
          /\ io' = [io EXCEPT ![PORT2(soc)] =
                        Append(@, Call("uart2_echo_task", -1, "open", -1, NoData))]
          /\ log2' = Append(log2, Line("UART2: Error opening %s, err %d\n", <<PORT2(soc), e>>))
          /\ pc2' = "done"
    /\ UNCHANGED <<soc, mainVars, u1Vars, ret2, rdbuf, timeout, fdset, in2Vars, urcVars>>

Cycles2 == Len(SelectSeq(io[PORT2(soc)], LAMBDA c : c.op = "select"))

\* as CycleTimeout, but set once: later cycles keep what the last wait left
CycleTimeoutKept(cur) ==
    IF Cycles2 = 0 THEN [tv_sec |-> TIMEOUT_SEC, tv_usec |-> TIMEOUT_USEC] ELSE cur

\* timeout.tv_sec = 5; timeout.tv_usec = 0;  (cur: the value left by the last cycle)
CycleTimeout(cur) == [tv_sec |-> TIMEOUT_SEC, tv_usec |-> TIMEOUT_USEC]

\* FD_ZERO(&set); FD_SET(fd, &set);  (cur: the value left by the last cycle)
CycleSet(cur, fd) == {fd}

\* as Branch, but with no case for a failed wait
BranchNoError(ret) == IF ret > 0 THEN "data" ELSE "timeout"

\* if (ret > 0) ... else if (ret == -1) ... else ...
Branch(ret) == IF ret > 0 THEN "data" ELSE IF ret = -1 THEN "error" ELSE "timeout"

\* what select() may answer: a descriptor is readable iff input is pending
SelectRets == {-1} \cup (IF Avail2 > 0 THEN {1} ELSE {0})

\* time left in the timeout after select() returned ret: none after it expired;
\* otherwise none, a part of it, or the timeout untouched
TimeLeft(ret, t) == IF ret = 0 THEN {0} ELSE {0, t.tv_sec - 1, t.tv_sec}

\* one loop cycle up to the branch on select()'s result
U2Select ==
    /\ pc2 = "select"
    /\ Cycles2 < MaxCycles2
    /\ LET t == CycleTimeout(timeout)
           s == CycleSet(fdset, fd2)
       IN  \E r \in SelectRets :
           /\ ret2' = r
           /\ Record("uart2_echo_task", fd2, "select", r,
                     [nfds |-> fd2 + 1, set |-> s, timeout |-> t])
           /\ fdset' = IF r > 0 THEN s ELSE IF r = 0 THEN {} ELSE s
           /\ \E left \in TimeLeft(r, t) : timeout' = [tv_sec |-> left, tv_usec |-> 0]
           /\ \/ /\ Branch(r) = "data"
                 /\ pc2' = "read"
                 /\ log2' = log2
              \/ /\ Branch(r) = "error"
                 /\ \E e \in Errnos :
                        log2' = Append(log2, Line("UART2: Select error: %d\n", <<e>>))
                 /\ pc2' = "done"
              \/ /\ Branch(r) = "timeout"
                 /\ pc2' = "notice"
                 /\ log2' = log2
    /\ UNCHANGED <<soc, mainVars, fdtab, u1Vars, fd2, rdbuf, in2Vars, urcVars>>

\* what read(fd, buf, count) may answer with avail bytes pending
ReadRets(avail, count) ==
    {-1, 0} \cup {k \in {1, avail, count} : 1 <= k /\ k <= avail /\ k <= count}

\* the bytes of the input at positions lo .. lo+len-1 (no bytes: one empty value)
Window(lo, len) == [src |-> "input", lo |-> (IF len = 0 THEN 0 ELSE lo), len |-> len]

\* ret = read(fd, rdbuf, sizeof(rdbuf)); if (ret < 0) { printf(...); break; }
U2Read ==
    /\ pc2 = "read"
    /\ \E r \in ReadRets(Avail2, RDBUF_SIZE) :
       /\ ret2' = r
       /\ \/ /\ r >= 0
             /\ rdbuf' = IF r > 0 THEN [lo |-> taken2, len |-> r] ELSE rdbuf
             /\ taken2' = taken2 + r
             /\ Record("uart2_echo_task", fd2, "read", r, Window(taken2, r))
             /\ pc2' = "write"
             /\ log2' = log2
          \/ /\ r < 0
             /\ rdbuf' = rdbuf
             /\ taken2' = taken2
             /\ Record("uart2_echo_task", fd2, "read", r, Window(taken2, 0))
             /\ \E e \in Errnos :
                    log2' = Append(log2, Line("UART2: fail to read from uart: %d\n", <<e>>))
             /\ pc2' = "done"
    /\ UNCHANGED <<soc, mainVars, fdtab, u1Vars, fd2, timeout, fdset,
                   arrived2, chunks2, urcVars>>

\* as BufBytes, but the whole buffer whatever was read
BufBytesAll(buf, n) == Window(buf.lo, RDBUF_SIZE)

\* the first n bytes of rdbuf
BufBytes(buf, n) == Window(buf.lo, n)

\* as U2Write, but writing again when not everything was written
U2WriteRetry ==
    /\ pc2 = "write"
    /\ \E r \in WriteRets(ret2) :
       /\ Record("uart2_echo_task", fd2, "write", r, BufBytes(rdbuf, ret2))
       /\ pc2' = IF r < ret2 THEN "write" ELSE "select"
    /\ UNCHANGED <<soc, mainVars, fdtab, u1Vars, fd2, ret2, rdbuf, timeout, fdset,
                   log2, in2Vars, urcVars>>

\* write(fd, rdbuf, ret);
U2Write ==
    /\ pc2 = "write"
    /\ \E r \in WriteRets(ret2) :
           Record("uart2_echo_task", fd2, "write", r, BufBytes(rdbuf, ret2))
    /\ pc2' = "select"
    /\ UNCHANGED <<soc, mainVars, fdtab, u1Vars, fd2, ret2, rdbuf, timeout, fdset,
                   log2, in2Vars, urcVars>>

NOTICE == "\r\nUART2: No data for 5 sec\r\n"

Notice == [src |-> "notice", lo |-> 0, len |-> NOTICE_LEN]

\* as U2Notice, but leaving the loop after the notice
U2NoticeBreak ==
    /\ pc2 = "notice"
    /\ \E r \in WriteRets(NOTICE_LEN) :
           Record("uart2_echo_task", fd2, "write", r, Notice)
    /\ log2' = Append(log2, Line(NOTICE, <<>>))
    /\ pc2' = "done"
    /\ UNCHANGED <<soc, mainVars, fdtab, u1Vars, fd2, ret2, rdbuf, timeout, fdset,
                   in2Vars, urcVars>>

\* write(fd, NOTICE, strlen(NOTICE)); printf(NOTICE);
U2Notice ==
    /\ pc2 = "notice"
    /\ \E r \in WriteRets(NOTICE_LEN) :
           Record("uart2_echo_task", fd2, "write", r, Notice)
    /\ log2' = Append(log2, Line(NOTICE, <<>>))
    /\ pc2' = "select"
    /\ UNCHANGED <<soc, mainVars, fdtab, u1Vars, fd2, ret2, rdbuf, timeout, fdset,
                   in2Vars, urcVars>>

(***************************************************************************)
(* urc_callback                                                            *)
(***************************************************************************)
UrcCodes == {"URC_SYS_INIT_STATE_IND", "URC_SIM_CARD_STATE_IND", "URC_GSM_NW_STATE_IND",
             "URC_GPRS_NW_STATE_IND", "URC_CFUN_STATE_IND", "URC_COMING_CALL_IND",
             "URC_CALL_STATE_IND", "URC_NEW_SMS_IND", "URC_MODULE_VOLTAGE_IND",
             "URC_ALARM_RING_IND", "URC_FILE_DOWNLOAD_STATUS", "URC_FOTA_STARTED",
             "URC_FOTA_FINISHED", "URC_FOTA_FAILED", "URC_STKPCI_RSP_IND"}

\* a code the enumeration does not define
UnknownCodes == {"URC_OUTSIDE_ENUM"}

SimStats == {"SIM_STAT_NOT_INSERTED", "SIM_STAT_READY", "SIM_STAT_PIN_REQ",
             "SIM_STAT_PUK_REQ", "SIM_STAT_NOT_READY"}

CallStates == {"CALL_STATE_BUSY", "CALL_STATE_NO_ANSWER", "CALL_STATE_NO_CARRIER",
               "CALL_STATE_NO_DIALTONE"}

\* parameter values that equal none of the enumerators the callback compares with
OtherParams == {"VALUE_A", "VALUE_B"}

\* addresses of the call-info structures the runtime passes with an incoming call
CallInfoPtrs == {"CALLINFO_A", "CALLINFO_B"}

\* ((struct ril_callinfo_t *)param2)->number
NumberAt(p) == IF p = "CALLINFO_A" THEN "NUMBER_A" ELSE "NUMBER_B"

\* the parameters the runtime delivers with a code
ParamsOf(code) ==
    CASE code = "URC_SYS_INIT_STATE_IND" -> {"SYS_STATE_SMSOK"} \cup OtherParams
      [] code = "URC_SIM_CARD_STATE_IND" -> SimStats \cup OtherParams
      [] code = "URC_CALL_STATE_IND" -> CallStates \cup OtherParams
      [] code = "URC_COMING_CALL_IND" -> CallInfoPtrs
      [] OTHER -> OtherParams

Debug(level, fmt, args) == [level |-> level, fmt |-> fmt, args |-> args]

\* as SimCase, but with the PIN line printed for PUK-required too
SimCasePinTwice(param2) ==
    CASE param2 = "SIM_STAT_NOT_INSERTED" ->
             <<Debug("DBG_OFF", "SYSTEM: SIM card not inserted!\n", <<>>)>>
      [] param2 = "SIM_STAT_READY" ->
             <<Debug("DBG_INFO", "SYSTEM: SIM card Ready!\n", <<>>)>>
      [] param2 = "SIM_STAT_PIN_REQ" ->
             <<Debug("DBG_OFF", "SYSTEM: SIM PIN required!\n", <<>>)>>
      [] param2 = "SIM_STAT_PUK_REQ" ->
             <<Debug("DBG_OFF", "SYSTEM: SIM PIN required!\n", <<>>)>>
      [] param2 = "SIM_STAT_NOT_READY" ->
             <<Debug("DBG_OFF", "SYSTEM: SIM card not recognized!\n", <<>>)>>
      [] OTHER ->
             <<Debug("DBG_OFF", "SYSTEM: SIM ERROR: %d\n", <<param2>>)>>

\* case URC_SIM_CARD_STATE_IND: switch (param2)
SimCase(param2) ==
    CASE param2 = "SIM_STAT_NOT_INSERTED" ->
             <<Debug("DBG_OFF", "SYSTEM: SIM card not inserted!\n", <<>>)>>
      [] param2 = "SIM_STAT_READY" ->
             <<Debug("DBG_INFO", "SYSTEM: SIM card Ready!\n", <<>>)>>
      [] param2 = "SIM_STAT_PIN_REQ" ->
             <<Debug("DBG_OFF", "SYSTEM: SIM PIN required!\n", <<>>)>>
      [] param2 = "SIM_STAT_PUK_REQ" ->
             <<Debug("DBG_OFF", "SYSTEM: SIM PUK required!\n", <<>>)>>
      [] param2 = "SIM_STAT_NOT_READY" ->
             <<Debug("DBG_OFF", "SYSTEM: SIM card not recognized!\n", <<>>)>>
      [] OTHER ->
             <<Debug("DBG_OFF", "SYSTEM: SIM ERROR: %d\n", <<param2>>)>>

\* case URC_CALL_STATE_IND: switch (param2)
CallCase(param2) ==
    CASE param2 = "CALL_STATE_BUSY" ->
             <<Debug("DBG_OFF", "The number you dialed is busy now\n", <<>>)>>
      [] param2 = "CALL_STATE_NO_ANSWER" ->
             <<Debug("DBG_OFF", "The number you dialed has no answer\n", <<>>)>>
      [] param2 = "CALL_STATE_NO_CARRIER" ->
             <<Debug("DBG_OFF", "The number you dialed cannot reach\n", <<>>)>>
      [] param2 = "CALL_STATE_NO_DIALTONE" ->
             <<Debug("DBG_OFF", "No Dial tone\n", <<>>)>>
      [] OTHER -> <<>>

\* as Default, but reporting the code it does not know
DefaultLogs(param1, param2) == <<Debug("DBG_OFF", "Unknown URC: %d\n", <<param1>>)>>

\* default: break;
Default(param1, param2) == <<>>

\* the debug() calls one invocation makes, in order
urc_callback(param1, param2) ==
    CASE param1 = "URC_SYS_INIT_STATE_IND" -> <<>>
      [] param1 = "URC_SIM_CARD_STATE_IND" -> SimCase(param2)
      [] param1 = "URC_GSM_NW_STATE_IND" ->
             <<Debug("DBG_OFF", "SYSTEM: GSM NW State: %d\n", <<param2>>)>>
      [] param1 = "URC_GPRS_NW_STATE_IND" -> <<>>
      [] param1 = "URC_CFUN_STATE_IND" -> <<>>
      [] param1 = "URC_COMING_CALL_IND" ->
             <<Debug("DBG_OFF", "Incoming voice call from: %s\n", <<NumberAt(param2)>>)>>
      [] param1 = "URC_CALL_STATE_IND" -> CallCase(param2)
      [] param1 = "URC_NEW_SMS_IND" ->
             <<Debug("DBG_OFF", "SMS: New SMS (%d)\n", <<param2>>)>>
      [] param1 = "URC_MODULE_VOLTAGE_IND" ->
             <<Debug("DBG_INFO", "VBatt Voltage: %d\n", <<param2>>)>>
      [] param1 = "URC_ALARM_RING_IND" -> <<>>
      [] param1 = "URC_FILE_DOWNLOAD_STATUS" -> <<>>
      [] param1 = "URC_FOTA_STARTED" -> <<>>
      [] param1 = "URC_FOTA_FINISHED" -> <<>>
      [] param1 = "URC_FOTA_FAILED" -> <<>>
      [] param1 = "URC_STKPCI_RSP_IND" -> <<>>
      [] OTHER -> Default(param1, param2)

\* as Urc, but with a callback that stores into the fixed-rate task's ch
UrcClobbers ==
    /\ urcSink = "urc_callback"
    /\ \E c \in UrcCodes \cup UnknownCodes : \E p \in ParamsOf(c) :
       /\ urcEv' = [code |-> c, param |-> p]
       /\ urcOut' = urc_callback(c, p)
    /\ ch' = 0
    /\ UNCHANGED <<soc, mainVars, fdtab, io, pc1, fd1, speed1, log1, u2Vars, in2Vars>>

\* the runtime delivers a URC to the registered callback
Urc ==
    /\ urcSink = "urc_callback"
    /\ \E c \in UrcCodes \cup UnknownCodes : \E p \in ParamsOf(c) :
       /\ urcEv' = [code |-> c, param |-> p]
       /\ urcOut' = urc_callback(c, p)
    /\ UNCHANGED <<soc, mainVars, fdtab, io, u1Vars, u2Vars, in2Vars>>

(***************************************************************************)
(* Specifications                                                          *)
(***************************************************************************)
\* the calls made so far by the two echo tasks
Calls == Len(io[PORT1(soc)]) + Len(io[PORT2(soc)]) + Len(io[BadFd])

\* the URCs delivered in the whole-system specification: one that logs, one that
\* is silent, one that carries a pointer, one outside the enumeration
SysUrcs == {[code |-> "URC_SIM_CARD_STATE_IND", param |-> "SIM_STAT_READY"],
            [code |-> "URC_GPRS_NW_STATE_IND", param |-> "VALUE_A"],
            [code |-> "URC_COMING_CALL_IND", param |-> "CALLINFO_A"],
            [code |-> "URC_OUTSIDE_ENUM", param |-> "VALUE_B"]}

NoUrc == [code |-> "", param |-> ""]

\* the whole system is explored up to SysCalls calls of the echo tasks
SysBound == Calls <= SysCalls /\ urcEv \in SysUrcs \cup {NoUrc}

U1OpenSys == U1Open /\ SysBound'

U1SetSpeedSys == U1SetSpeed /\ SysBound'

U1ReadSys == U1Read /\ SysBound'

U1WriteSys == U1Write /\ SysBound'

U1CloseSys == U1Close /\ SysBound'

U2OpenSys == U2Open /\ SysBound'

U2SelectSys == U2Select /\ SysBound'

U2ReadSys == U2Read /\ SysBound'

U2WriteSys == U2Write /\ SysBound'

U2NoticeSys == U2Notice /\ SysBound'

UrcSys == Urc /\ SysBound'

Next ==
    \/ MainInit
    \/ MainSpawn1
    \/ MainSpawn2
    \/ MainSleep
    \/ Arrive2
    \/ U1OpenSys
    \/ U1SetSpeedSys
    \/ U1ReadSys
    \/ U1WriteSys
    \/ U1CloseSys
    \/ U2OpenSys
    \/ U2SelectSys
    \/ U2ReadSys
    \/ U2WriteSys
    \/ U2NoticeSys
    \/ UrcSys

\* main, the two echo tasks and the runtime's URC delivery
Spec == Init /\ [][Next]_vars

NextUart1 == MainInit \/ MainSpawn1 \/ MainSpawn2 \/ MainSleep
             \/ U1Open \/ U1SetSpeed \/ U1Read \/ U1Write \/ U1Close

\* main and the fixed-rate task alone
SpecUart1 == Init /\ [][NextUart1]_vars

NextUart2 == MainInit \/ MainSpawn1 \/ MainSpawn2 \/ MainSleep
             \/ Arrive2 \/ U2Open \/ U2Select \/ U2Read \/ U2Write \/ U2Notice

\* main and the idle-timeout task alone
SpecUart2 == Init /\ [][NextUart2]_vars

NextUrc == MainInit \/ MainSpawn1 \/ MainSpawn2 \/ MainSleep \/ Urc

\* main and the runtime's URC delivery alone
SpecUrc == Init /\ [][NextUrc]_vars
(***************************************************************************)
(* Properties of the fixed-rate echo task                                  *)
(***************************************************************************)
\* the calls made on the fixed-rate endpoint
T1 == io[PORT1(soc)]

\* its reads and writes, in order
Rw1 == SelectSeq(T1, LAMBDA c : c.op \in {"read", "write"})

RECURSIVE Cat(_)
\* the bytes of a sequence of calls, in order
Cat(calls) == IF calls = <<>> THEN <<>> ELSE Head(calls).data \o Cat(Tail(calls))

\* the bytes delivered by the reads
Delivered1 == Cat(SelectSeq(T1, LAMBDA c : c.op = "read" /\ c.ret = 1))

\* the bytes handed to write()
Written1 == Cat(SelectSeq(T1, LAMBDA c : c.op = "write"))

\* every read so far delivered one byte or failed
OneAtATime1 == \A i \in 1..Len(T1) : T1[i].op = "read" => T1[i].ret # 0

\* C1: on the fixed-rate channel reads and writes strictly alternate, starting
\* with a read; the write that follows a read of one byte is a write of that
\* byte; and when the bytes are delivered one at a time the bytes handed to
\* write() are the bytes delivered, in order, the last one possibly still to
\* be written.
C1_EchoInOrder ==
    /\ \A i \in 1..Len(Rw1) :
           Rw1[i].op = (IF i % 2 = 1 THEN "read" ELSE "write")
    /\ \A i \in 2..Len(Rw1) :
           (Rw1[i].op = "write" /\ Rw1[i - 1].ret = 1) => Rw1[i].data = Rw1[i - 1].data
    /\ OneAtATime1 =>
           /\ Len(Written1) <= Len(Delivered1)
           /\ Written1 = SubSeq(Delivered1, 1, Len(Written1))
           /\ Len(Delivered1) - Len(Written1) = (IF pc1 = "write" THEN 1 ELSE 0)

\* three bytes, not all equal, were delivered one at a time and echoed
C1_Witness ==
    /\ OneAtATime1
    /\ Len(Delivered1) = 3
    /\ Written1 = Delivered1
    /\ Delivered1[1] # Delivered1[2]
    /\ pc1 = "read"

(***************************************************************************)
(* Properties of the idle-timeout echo task                                *)
(***************************************************************************)
\* the calls made on the idle-timeout endpoint
T2 == io[PORT2(soc)]

NoticeLines == Len(SelectSeq(log2, LAMBDA l : l.fmt = NOTICE))

NoticeWrites == Len(SelectSeq(T2, LAMBDA c : c.op = "write" /\ c.data = Notice))

TimedOut2 == Len(SelectSeq(T2, LAMBDA c : c.op = "select" /\ c.ret = 0))

\* C2: in a cycle whose wait reports data the task reads at most the buffer
\* capacity in one call, then writes exactly the bytes the read returned, and
\* the next call is the next wait: no idle notice is written or logged in the
\* cycle.
C2_EchoWhatWasRead ==
    /\ \A i \in 1..Len(T2) :
           (T2[i].op = "select" /\ T2[i].ret > 0) =>
               /\ i + 1 <= Len(T2) =>
                      /\ T2[i + 1].op = "read"
                      /\ T2[i + 1].ret <= RDBUF_SIZE
               /\ (i + 2 <= Len(T2) /\ T2[i + 1].ret >= 0) =>
                      /\ T2[i + 2].op = "write"
                      /\ T2[i + 2].data = T2[i + 1].data
                      /\ T2[i + 2].data.src = "input"
                      /\ T2[i + 2].data.len = T2[i + 1].ret
               /\ i + 3 <= Len(T2) => T2[i + 3].op = "select"
    /\ NoticeWrites <= TimedOut2
    /\ NoticeLines <= TimedOut2

\* more than a buffer was pending, a full buffer was read and echoed, and a
\* shorter read was echoed too
C2_Witness ==
    \E i \in 1..Len(T2) : \E j \in 1..Len(T2) :
        /\ T2[i].op = "read" /\ T2[i].ret = RDBUF_SIZE
        /\ i + 1 <= Len(T2) /\ T2[i + 1].op = "write" /\ T2[i + 1].data = T2[i].data
        /\ T2[j].op = "read" /\ T2[j].ret = 1
        /\ j + 1 <= Len(T2) /\ T2[j + 1].op = "write" /\ T2[j + 1].data = T2[j].data
        /\ arrived2 > RDBUF_SIZE
        /\ NoticeLines = 0

Last(seq) == seq[Len(seq)]

\* C3: in a cycle whose wait expires the task writes the idle notice to the
\* endpoint and logs it, does not terminate, and is then at the next wait;
\* every expired wait is answered so, however many follow each other.
C3_IdleNotice ==
    /\ \A i \in 1..Len(T2) :
           (T2[i].op = "select" /\ T2[i].ret = 0) =>
               /\ i = Len(T2) => pc2 = "notice"
               /\ i + 1 <= Len(T2) =>
                      /\ T2[i + 1].op = "write"
                      /\ T2[i + 1].data = Notice
               /\ i + 1 = Len(T2) => pc2 = "select" /\ Last(log2).fmt = NOTICE
               /\ i + 2 <= Len(T2) => T2[i + 2].op = "select"
    /\ NoticeWrites = TimedOut2 - (IF pc2 = "notice" THEN 1 ELSE 0)
    /\ NoticeLines = NoticeWrites

\* three idle cycles in a row, each answered with the notice
C3_Witness ==
    /\ TimedOut2 = 3
    /\ NoticeLines = 3
    /\ NoticeWrites = 3
    /\ Len(T2) = 7
    /\ pc2 = "select"

\* C4: every result of the wait is handled as exactly one of data-ready, error
\* and timeout: data-ready is followed by a read; an error by a log line and
\* the end of the task, with no read and no notice; a timeout by the notice,
\* with no read and no end of the task.
C4_ThreeOutcomes ==
    \A i \in 1..Len(T2) :
        T2[i].op = "select" =>
            /\ T2[i].ret > 0 =>
                   /\ i = Len(T2) => pc2 = "read"
                   /\ i + 1 <= Len(T2) => T2[i + 1].op = "read"
            /\ T2[i].ret < 0 =>
                   /\ i = Len(T2)
                   /\ pc2 = "done"
                   /\ Last(log2).fmt = "UART2: Select error: %d\n"
            /\ T2[i].ret = 0 =>
                   /\ i = Len(T2) => pc2 = "notice"
                   /\ i + 1 <= Len(T2) => T2[i + 1].op = "write" /\ T2[i + 1].data = Notice
                   /\ i + 1 = Len(T2) => pc2 = "select"

\* one run in which the wait expired, then reported data, then failed
C4_Witness ==
    /\ \E i \in 1..Len(T2) : T2[i].op = "select" /\ T2[i].ret = 0
    /\ \E i \in 1..Len(T2) : T2[i].op = "select" /\ T2[i].ret > 0
    /\ \E i \in 1..Len(T2) : T2[i].op = "select" /\ T2[i].ret < 0
    /\ pc2 = "done"
(***************************************************************************)
(* Properties of the two echo tasks together                               *)
(***************************************************************************)
\* every call either task has made, on whatever descriptor
CallsBy(task) == {c \in UNION {{io[k][i] : i \in 1..Len(io[k])} : k \in DOMAIN io} :
                      c.task = task}

Closed(task, trace) == \E i \in 1..Len(trace) : trace[i].task = task /\ trace[i].op = "close"

\* C5: a task that ends after it opened its endpoint has closed the handle
\* before it returns.
C5_ReleasedOnExit ==
    /\ (pc1 = "done" /\ fd1 >= 0) => Closed("uart1_echo_task", T1)
    /\ (pc2 = "done" /\ fd2 >= 0) => Closed("uart2_echo_task", T2)

OpenFailed(trace) == \E i \in 1..Len(trace) : trace[i].op = "open" /\ trace[i].ret < 0

\* main is not held up: it can take its next step
MainGoesOn ==
    /\ pcMain \in {"init", "spawn1", "spawn2", "idle"}
    /\ pcMain = "spawn1" => ENABLED MainSpawn1
    /\ pcMain = "spawn2" => ENABLED MainSpawn2
    /\ pcMain = "idle" => ENABLED MainSleep

\* the fixed-rate task is not held up: it can take its next step
U1GoesOn ==
    /\ pc1 = "open" => ENABLED U1Open
    /\ pc1 = "setspeed" => ENABLED U1SetSpeed
    /\ (pc1 = "read" /\ Reads1 < MaxReads1) => ENABLED U1Read
    /\ pc1 = "write" => ENABLED U1Write
    /\ pc1 = "close" => ENABLED U1Close

\* the idle-timeout task is not held up: it can take its next step
U2GoesOn ==
    /\ pc2 = "open" => ENABLED U2Open
    /\ (pc2 = "select" /\ Cycles2 < MaxCycles2) => ENABLED U2Select
    /\ pc2 = "read" => ENABLED U2Read
    /\ pc2 = "write" => ENABLED U2Write
    /\ pc2 = "notice" => ENABLED U2Notice

\* the runtime can deliver the next URC
UrcGoesOn == urcSink = "urc_callback" => ENABLED Urc

\* what belongs to the fixed-rate task, and what belongs to everything else
Own1 == <<u1Vars, io[PORT1(soc)]>>

Own2 == <<u2Vars, in2Vars, io[PORT2(soc)]>>

C6_Inv ==
    /\ OpenFailed(T1) =>
           /\ pc1 = "done"
           /\ \A c \in CallsBy("uart1_echo_task") : c.op = "open" /\ c.ret < 0
           /\ Len(T1) = 1
           /\ speed1 = 0
           /\ \E e \in Errnos :
                  log1 = <<Line("UART1: Error opening %s, err %d\n", <<PORT1(soc), e>>)>>
           /\ MainGoesOn /\ U2GoesOn
    /\ OpenFailed(T2) =>
           /\ pc2 = "done"
           /\ \A c \in CallsBy("uart2_echo_task") : c.op = "open" /\ c.ret < 0
           /\ Len(T2) = 1
           /\ \E e \in Errnos :
                  log2 = <<Line("UART2: Error opening %s, err %d\n", <<PORT2(soc), e>>)>>
           /\ MainGoesOn /\ U1GoesOn

C6_Step ==
    /\ (~OpenFailed(T1) /\ OpenFailed(T1)') =>
           UNCHANGED <<mainVars, fdtab, Own2, urcVars>>
    /\ (~OpenFailed(T2) /\ OpenFailed(T2)') =>
           UNCHANGED <<mainVars, fdtab, Own1, urcVars>>

\* C6: a task whose open fails prints a diagnostic with the endpoint's path and
\* the error and ends having made no other call on the endpoint; the failure
\* changes nothing of main, the descriptor table or the other task, which can
\* all take their next steps.
C6_OpenFailure == []C6_Inv /\ [][C6_Step]_vars

\* the fixed-rate task failed to open its endpoint, and the idle-timeout task
\* opened its own and echoed input
C6_Witness ==
    /\ OpenFailed(T1)
    /\ pc1 = "done"
    /\ \E i \in 1..Len(T2) :
           T2[i].op = "write" /\ T2[i].data.src = "input" /\ T2[i].ret > 0

ReadFailed(trace) == \E i \in 1..Len(trace) : trace[i].op = "read" /\ trace[i].ret < 0

C7_Inv ==
    /\ \A i \in 1..Len(T1) :
           (T1[i].op = "read" /\ T1[i].ret < 0) =>
               /\ pc1 \in {"close", "done"}
               /\ Last(log1).fmt = "UART1: fail to read from uart: %d\n"
               /\ \A j \in (i + 1)..Len(T1) : T1[j].op = "close"
               /\ MainGoesOn /\ U2GoesOn /\ UrcGoesOn
    /\ \A i \in 1..Len(T2) :
           (T2[i].op = "read" /\ T2[i].ret < 0) =>
               /\ pc2 = "done"
               /\ Last(log2).fmt = "UART2: fail to read from uart: %d\n"
               /\ i = Len(T2)
               /\ MainGoesOn /\ U1GoesOn /\ UrcGoesOn

C7_Step ==
    /\ (~ReadFailed(T1) /\ ReadFailed(T1)') =>
           UNCHANGED <<mainVars, fdtab, Own2, urcVars>>
    /\ (~ReadFailed(T2) /\ ReadFailed(T2)') =>
           UNCHANGED <<mainVars, fdtab, Own1, urcVars>>

\* C7: a task whose read fails prints a diagnostic and ends: no write, no
\* further read and no further wait follow the failed read; the failure
\* changes nothing of main, the other task or the URC handler, which can all
\* take their next steps.
C7_ReadFailure == []C7_Inv /\ [][C7_Step]_vars

\* the idle-timeout task ended on a failed read while the fixed-rate task has
\* opened and configured its endpoint and is reading
C7_Witness ==
    /\ ReadFailed(T2)
    /\ pc2 = "done"
    /\ pc1 = "read"
    /\ speed1 = B9600

(***************************************************************************)
(* Properties of urc_callback                                              *)
(***************************************************************************)
\* the codes whose case is only a break, or has an empty body
ReservedCodes == {"URC_SYS_INIT_STATE_IND", "URC_GPRS_NW_STATE_IND", "URC_CFUN_STATE_IND",
                  "URC_ALARM_RING_IND", "URC_FILE_DOWNLOAD_STATUS", "URC_FOTA_STARTED",
                  "URC_FOTA_FINISHED", "URC_FOTA_FAILED", "URC_STKPCI_RSP_IND"}

C8_Inv ==
    /\ urcEv.code \in ReservedCodes \cup UnknownCodes => urcOut = <<>>
    /\ UrcGoesOn

C8_Step ==
    (urcVars' # urcVars /\ urcEv'.code \in ReservedCodes \cup UnknownCodes) =>
        UNCHANGED <<soc, mainVars, fdtab, io, u1Vars, u2Vars, in2Vars>>

\* C8: for a reserved code or a code outside the enumeration, with any
\* parameter, the callback makes no debug() call, changes nothing else and
\* can be invoked again.
C8_ReservedSilent == []C8_Inv /\ [][C8_Step]_vars

\* the last URC delivered has a code outside the enumeration
C8_Witness == urcEv.code \in UnknownCodes /\ urcOut = <<>>

C9_Inv ==
    /\ Len(urcOut) <= 1
    /\ (urcEv.code = "URC_SIM_CARD_STATE_IND" /\ urcEv.param \in SimStats) =>
           /\ Len(urcOut) = 1
           /\ urcOut[1].args = <<>>
           /\ urcOut[1].fmt # "SYSTEM: SIM ERROR: %d\n"
           /\ \A q \in SimStats \ {urcEv.param} :
                  urcOut[1].fmt # urc_callback("URC_SIM_CARD_STATE_IND", q)[1].fmt
    /\ (urcEv.code = "URC_SIM_CARD_STATE_IND" /\ urcEv.param \notin SimStats) =>
           urcOut = <<Debug("DBG_OFF", "SYSTEM: SIM ERROR: %d\n", <<urcEv.param>>)>>
    /\ urcEv.code = "URC_GSM_NW_STATE_IND" =>
           urcOut = <<Debug("DBG_OFF", "SYSTEM: GSM NW State: %d\n", <<urcEv.param>>)>>
    /\ urcEv.code = "URC_NEW_SMS_IND" =>
           urcOut = <<Debug("DBG_OFF", "SMS: New SMS (%d)\n", <<urcEv.param>>)>>
    /\ urcEv.code = "URC_MODULE_VOLTAGE_IND" =>
           urcOut = <<Debug("DBG_INFO", "VBatt Voltage: %d\n", <<urcEv.param>>)>>
    /\ (urcEv.code = "URC_CALL_STATE_IND" /\ urcEv.param \in CallStates) =>
           /\ Len(urcOut) = 1
           /\ urcOut[1].args = <<>>
           /\ \A q \in CallStates \ {urcEv.param} :
                  urcOut[1].fmt # urc_callback("URC_CALL_STATE_IND", q)[1].fmt
    /\ (urcEv.code = "URC_CALL_STATE_IND" /\ urcEv.param \notin CallStates) =>
           urcOut = <<>>

\* C9: every supported event makes the callback print its own line and nothing
\* else: the five named SIM states five different lines, any other SIM
\* parameter the error line with the parameter; network registration, new
\* message and voltage a line with the parameter; the four named call states
\* four different lines, any other call state nothing; never two lines.
C9_DocumentedLines == C9_Inv

\* a SIM-status URC with a parameter that is none of the named states
C9_Witness ==
    /\ urcEv.code = "URC_SIM_CARD_STATE_IND"
    /\ urcEv.param = "VALUE_B"
    /\ urcOut[1].args = <<"VALUE_B">>

(***************************************************************************)
(* Properties of main                                                      *)
(***************************************************************************)
IsPrefix(a, b) == Len(a) <= Len(b) /\ a = SubSeq(b, 1, Len(a))

C10_Inv ==
    /\ initCalls = (IF pcMain = "init" THEN 0 ELSE 1)
    /\ IsPrefix(spawned, <<"uart1_echo_task", "uart2_echo_task">>)
    /\ pc1 # "unborn" <=> Len(spawned) >= 1
    /\ pc2 # "unborn" <=> Len(spawned) = 2
    /\ pcMain = "idle" <=> Len(spawned) = 2
    /\ MainGoesOn

C10_Step == pcMain = "idle" => pcMain' = "idle"

\* C10: main calls the runtime's init once, before it spawns anything; it then
\* spawns the fixed-rate task and the idle-timeout task, in that order, held
\* up by neither; and once idle it stays idle, whatever the tasks do.
C10_Bootstrap == []C10_Inv /\ [][C10_Step]_vars

\* both echo tasks have ended and main idles on
C10_Witness == pc1 = "done" /\ pc2 = "done" /\ pcMain = "idle" /\ initCalls = 1
(***************************************************************************)
(* URC delivery and the echo tasks                                         *)
(***************************************************************************)
C11_Inv == U1GoesOn /\ U2GoesOn

C11_Step ==
    urcVars' # urcVars => UNCHANGED <<soc, fdtab, io, u1Vars, u2Vars, in2Vars>>

\* C11: the delivery of a URC, at any time after init, changes nothing of the
\* echo tasks, of their input or of the calls made on the endpoints, and
\* whatever URCs were delivered each task can take its next step: the tasks
\* run as they would without the URCs.
C11_UrcApart == []C11_Inv /\ [][C11_Step]_vars

\* a URC that logs has been delivered while the fixed-rate task is between the
\* read of a byte and its echo and the idle-timeout task is about to read
C11_Witness ==
    /\ urcEv.code = "URC_SIM_CARD_STATE_IND"
    /\ urcOut # <<>>
    /\ pc1 = "write"
    /\ ch = 1
    /\ pc2 = "read"
(***************************************************************************)
(* Ownership of the endpoints and of their handles                         *)
(***************************************************************************)
\* the task holds an open descriptor of the path
Holds(fd, path) == <<fd, path>> \in fdtab

\* C12: every call on the first peripheral endpoint is made by the fixed-rate
\* task on its own descriptor, every call on the second by the idle-timeout
\* task on its own descriptor; no call is made on any other path or on a
\* value that names no open descriptor; two descriptors open at the same time
\* differ; and the console path and the two peripheral paths differ pairwise.
C12_OwnEndpoint ==
    /\ \A i \in 1..Len(T1) :
           /\ T1[i].task = "uart1_echo_task"
           /\ T1[i].fd = fd1
    /\ \A i \in 1..Len(T2) :
           /\ T2[i].task = "uart2_echo_task"
           /\ T2[i].fd = fd2
    /\ \A p \in (DOMAIN io) \ {PORT1(soc), PORT2(soc)} : io[p] = <<>>
    /\ (Holds(fd1, PORT1(soc)) /\ Holds(fd2, PORT2(soc))) => fd1 # fd2
    /\ \A e \in fdtab : e = <<fd1, PORT1(soc)>> \/ e = <<fd2, PORT2(soc)>>
    /\ Cardinality({STDIO_PORT(soc), PORT1(soc), PORT2(soc)}) = 3

\* both tasks hold their endpoint open at once; the fixed-rate task has read
\* from its own and the idle-timeout task has waited on its own
C12_Witness ==
    /\ Holds(fd1, PORT1(soc)) /\ Holds(fd2, PORT2(soc))
    /\ \E i \in 1..Len(T1) : T1[i].op = "read" /\ T1[i].ret = 1
    /\ \E i \in 1..Len(T2) : T2[i].op = "select"
    /\ stdio = STDIO_PORT(soc)
(***************************************************************************)
(* What ends a channel task                                                *)
(***************************************************************************)
\* the call before the last one of a trace
LastButOne(trace) == trace[Len(trace) - 1]

\* C13: a channel task leaves its loop only on an error of its own: when the
\* fixed-rate task is past its loop, the last call on its endpoint is its
\* failed open, or its failed read followed at most by the close; when the
\* idle-timeout task has ended, the last call on its endpoint is its failed
\* open, wait or read.  Successful reads, writes of any result and timeouts
\* leave the task in its loop.
C13_OnlyErrorsEnd ==
    /\ pc1 = "close" => Last(T1).op = "read" /\ Last(T1).ret < 0
    /\ pc1 = "done" =>
           \/ Last(T1).op = "open" /\ Last(T1).ret < 0
           \/ /\ Last(T1).op = "close"
              /\ LastButOne(T1).op = "read" /\ LastButOne(T1).ret < 0
    /\ pc2 = "done" => Last(T2).op \in {"open", "select", "read"} /\ Last(T2).ret < 0
    /\ pc1 \in {"close", "done"} => OpenFailed(T1) \/ ReadFailed(T1)

\* the idle-timeout task has read input and echoed it with success, and has
\* then ended on a failed wait
C13_Witness ==
    /\ pc2 = "done"
    /\ Last(T2).op = "select"
    /\ \E i \in 1..Len(T2) : T2[i].op = "read" /\ T2[i].ret > 0
    /\ \E i \in 1..Len(T2) : T2[i].op = "write" /\ T2[i].ret > 0
(***************************************************************************)
(* Writes whose result is not looked at                                    *)
(***************************************************************************)
\* the write did not write all it was asked to: it failed or was short
Unwritten1(c) == c.op = "write" /\ c.ret < Len(c.data)

Unwritten2(c) == c.op = "write" /\ c.ret < c.data.len

Logged1(c) ==
    \/ c.op = "tcsetattr"
    \/ c.op \in {"open", "read"} /\ c.ret < 0

Logged2(c) ==
    \/ c.op = "open"
    \/ c.op \in {"read", "select"} /\ c.ret < 0
    \/ c.op = "write" /\ c.data = Notice

EchoWrite2(c) == c.op = "write" /\ c.data # Notice /\ c.data.len > 0

\* C14: after a write that failed or was short the task goes on as after any
\* write: the next call of the fixed-rate task is a read, the next call of the
\* idle-timeout task is a wait, the task has not left its loop, and its log
\* holds one line per open, failed read, failed wait and notice and none for a
\* write result; no two echo writes of the idle-timeout task carry the same
\* bytes of the input.
C14_WriteUnchecked ==
    /\ \A i \in 1..Len(T1) : Unwritten1(T1[i]) =>
           IF i = Len(T1) THEN pc1 = "read" ELSE T1[i + 1].op = "read"
    /\ \A i \in 1..Len(T2) : Unwritten2(T2[i]) =>
           IF i = Len(T2) THEN pc2 = "select" ELSE T2[i + 1].op = "select"
    /\ Len(log1) = Len(SelectSeq(T1, Logged1))
    /\ Len(log2) = Len(SelectSeq(T2, Logged2))
    /\ \A i, j \in 1..Len(T2) : (i < j /\ EchoWrite2(T2[i]) /\ EchoWrite2(T2[j])) =>
           T2[j].data.lo >= T2[i].data.lo + T2[i].data.len

\* the idle-timeout task's echo write was short and its next call was a wait;
\* no line was logged in between
C14_Witness ==
    /\ \E i \in 1..(Len(T2) - 1) :
           /\ Unwritten2(T2[i]) /\ T2[i].ret > 0 /\ T2[i].data # Notice
           /\ T2[i + 1].op = "select"
    /\ Len(log2) = 1
(***************************************************************************)
(* A closed handle                                                         *)
(***************************************************************************)
\* a handle is one open of an endpoint: the descriptor from that open() up to
\* its close().  The number of a closed descriptor may be handed out again by a
\* later open(); that is a new handle.

\* C15: after a task has closed its handle no call is made on it: no call is
\* ever made on a descriptor that is not open, the close is the last call on
\* the endpoint and its task has ended, and a descriptor number that is in use
\* again belongs to the other task's own open of its own endpoint, on which
\* only that task calls.
C15_ClosedNotReused ==
    /\ io[BadFd] = <<>>
    /\ \A i \in 1..Len(T1) : T1[i].op = "close" => i = Len(T1) /\ pc1 = "done"
    /\ \A i \in 1..Len(T2) : T2[i].op = "close" => i = Len(T2) /\ pc2 = "done"
    /\ Closed("uart1_echo_task", T1) => ~Holds(fd1, PORT1(soc))
    /\ \A i \in 1..Len(T2) : T2[i].task = "uart2_echo_task"
    /\ \A i \in 1..Len(T1) : T1[i].task = "uart1_echo_task"

\* the fixed-rate task has closed its handle and ended, and the idle-timeout
\* task's later open has been given the same descriptor number
C15_Witness ==
    /\ Closed("uart1_echo_task", T1)
    /\ pc1 = "done"
    /\ fd2 = fd1
    /\ Holds(fd2, PORT2(soc))
(***************************************************************************)
(* The arguments of the readiness wait                                     *)
(***************************************************************************)
Selects2 == SelectSeq(T2, LAMBDA c : c.op = "select")

\* C16: every wait of the idle-timeout task is called with the timeout of 5 s
\* and 0 us, with a descriptor set holding its own descriptor and nothing else,
\* and with nfds one above that descriptor, whatever the wait before it left
\* in the timeout and in the set.
C16_FullTimeoutEachCycle ==
    \A i \in 1..Len(Selects2) :
        /\ Selects2[i].data.timeout = [tv_sec |-> TIMEOUT_SEC, tv_usec |-> TIMEOUT_USEC]
        /\ Selects2[i].data.set = {fd2}
        /\ Selects2[i].data.nfds = fd2 + 1
        /\ Selects2[i].fd = fd2

\* a wait has expired, leaving no time in the timeout and an empty set, a later
\* wait has returned with input, and the third wait has returned with a part
\* of its timeout used up
C16_Witness ==
    /\ Len(Selects2) = 3
    /\ \E i \in 1..2 : Selects2[i].ret = 0
    /\ \E i \in 1..2 : Selects2[i].ret > 0
    /\ timeout.tv_sec \notin {0, TIMEOUT_SEC}
(***************************************************************************)
(* What the fixed-rate task writes                                         *)
(***************************************************************************)
\* the bytes that reads on the fixed-rate endpoint stored into ch
Read1 == Cat(SelectSeq(T1, LAMBDA c : c.op = "read" /\ c.ret > 0))

\* C17: the fixed-rate task has written at most as many bytes as it has read,
\* and every write follows a read that delivered a byte and writes that byte,
\* also when a read returns 0 without an error.
C17_WritesOnlyRead ==
    /\ Len(Written1) <= Len(Read1)
    /\ \A i \in 1..Len(T1) : T1[i].op = "write" =>
           /\ i > 1
           /\ T1[i - 1].op = "read"
           /\ T1[i - 1].ret = 1
           /\ T1[i].data = T1[i - 1].data
====
